---- MODULE Spec2Model ----
(***************************************************************************)
(* NoteWizard: the main window TextEdit (src/env/textedit.py) and its      *)
(* bootstrap (src/env/main.py) as a state machine.  One action per handler *)
(* of the window; modal dialogs are inputs of the handler that opens them. *)
(*                                                                         *)
(* A path is a sequence of tokens: "/" is a separator, ":" the resource    *)
(* prefix, a token starting with "." a suffix.  The empty string is <<>>.  *)
(***************************************************************************)
EXTENDS Integers, Sequences, FiniteSets, TLC

\* ------------------------------------------------------------- bounds
\* the longest chain of "Save as..." dialogs one handler may open
MaxDialogs == 2
\* what the handlers run in a bounded session may weigh together: a handler
\* of the note tree weighs 1, the start of the program and every other
\* handler, with its dialogs and callbacks, 2
MaxSteps == 6
\* the number of times the text cursor moves to another block in a session
MaxMoves == 1
\* the number of edits by which a text can differ from what was loaded
MaxEdits == 1

\* ------------------------------------------------------------- paths
EmptyName == <<>>
Example == <<":", "/", "example", ".html">>
Notes == <<"/", "notes", ".md">>
Draft == <<"/", "draft", ".odt">>
Locked == <<"/", "locked", ".txt">>
Readme == <<"/", "readme">>
Page == <<"/", "page", ".html">>

Paths == {Example, Notes, Draft, Locked, Readme, Page}

\* main.py:41  the bundled sample document
DefaultFile == Example

\* main.py:26  QCoreApplication.setApplicationName
AppName == "NoteWizard"

\* sys.platform of the machine the model runs the window on
Platform == "linux"

\* str.startswith(":/")
StartsWithResource(f) == Len(f) >= 2 /\ f[1] = ":" /\ f[2] = "/"

RECURSIVE LastSep(_, _)
\* position of the last "/" token among the first n tokens of f, 0 if none
LastSep(f, n) == IF n = 0 THEN 0 ELSE IF f[n] = "/" THEN n ELSE LastSep(f, n - 1)

\* QFileInfo(f).fileName(): what follows the last separator
FileName(f) == SubSeq(f, LastSep(f, Len(f)) + 1, Len(f))

Suffixes == {".html", ".md", ".odt", ".txt", ".pdf"}

\* QFileInfo(f).suffix(): the suffix token of the file name, "" if none
Suffix(f) == IF Len(f) > 0 /\ f[Len(f)] \in Suffixes THEN f[Len(f)] ELSE ""

\* QDir.toNativeSeparators: "/" becomes "\" on Windows, nothing changes elsewhere
NativeSeparators(f) ==
    IF Platform = "win32"
    THEN [i \in 1..Len(f) |-> IF f[i] = "/" THEN "\\" ELSE f[i]]
    ELSE f

\* ------------------------------------------------------------- files
NoText == [id |-> "", rev |-> 0]
NoFile == [exists |-> FALSE, fmt |-> "", text |-> NoText, utf8 |-> TRUE]

\* the files on disk when the program starts.  The resource system holds
\* nothing: main.py:14 leaves the import of the compiled resources (textedit_rc)
\* commented out and no other module imports them, so no ":/" path exists
InitialFs ==
    [p \in Paths |->
        CASE p = Page -> [exists |-> TRUE, fmt |-> "html",
                          text |-> [id |-> "page", rev |-> 0], utf8 |-> TRUE]
          [] p = Notes -> [exists |-> TRUE, fmt |-> "markdown",
                           text |-> [id |-> "notes", rev |-> 0], utf8 |-> TRUE]
          [] p = Locked -> [exists |-> TRUE, fmt |-> "plaintext",
                            text |-> [id |-> "locked", rev |-> 0], utf8 |-> TRUE]
          [] p = Readme -> [exists |-> TRUE, fmt |-> "plaintext",
                            text |-> [id |-> "readme", rev |-> 0], utf8 |-> TRUE]
          [] OTHER -> NoFile]

\* file permissions: Locked can be neither read nor written, Page is read-only
Readable(f) == f # Locked
Writable(f) == f \notin {Locked, Page}

\* QMimeDatabase.mimeTypeForFileNameAndData: a suffix that names one type
\* decides; otherwise the content is sniffed
MimeTypeFor(f, data) ==
    CASE Suffix(f) = ".html" -> "text/html"
      [] Suffix(f) = ".md" -> "text/markdown"
      [] Suffix(f) = ".txt" -> "text/plain"
      [] Suffix(f) = ".odt" -> "application/vnd.oasis.opendocument.text"
      [] Suffix(f) = ".pdf" -> "application/pdf"
      [] OTHER -> CASE data.fmt = "html" -> "text/html"
                    [] data.fmt = "odf" -> "application/vnd.oasis.opendocument.text"
                    [] data.fmt = "pdf" -> "application/pdf"
                    [] OTHER -> "text/plain"

\* QTextDocumentWriter: the format is chosen by the suffix of the file name;
\* a suffix it does not know has no writer
WriterFormat(f) ==
    CASE Suffix(f) = ".odt" -> "odf"
      [] Suffix(f) = ".md" -> "markdown"
      [] Suffix(f) = ".html" -> "html"
      [] Suffix(f) = ".txt" -> "plaintext"
      [] OTHER -> "none"

\* ------------------------------------------------------------- the note tree
\* TreeModel and TreeItem (treemodel.py): an item holds one value per column and
\* an ordered list of child items; the root item holds the headers.  A row
\* number is the 0-based position in the parent's list.
MaxNodes == 2
MaxColumns == 2

TreeItem(data, children) == [data |-> data, children |-> children]

column_count(item) == Len(item.data)
child_count(item) == Len(item.children)

RECURSIVE NodeCount(_)
\* the items below item
NodeCount(item) ==
    LET RECURSIVE Sum(_)
        Sum(i) == IF i = 0 THEN 0 ELSE 1 + NodeCount(item.children[i]) + Sum(i - 1)
    IN  Sum(Len(item.children))

RECURSIVE ValidPath(_, _)
\* path: the row numbers from the root down to an item
ValidPath(item, path) ==
    \/ path = <<>>
    \/ /\ Head(path) \in 0..(child_count(item) - 1)
       /\ ValidPath(item.children[Head(path) + 1], Tail(path))

RECURSIVE ItemAt(_, _)
ItemAt(item, path) ==
    IF path = <<>> THEN item ELSE ItemAt(item.children[Head(path) + 1], Tail(path))

\* QModelIndex: invalid, or the row path of an item and a column
Invalid == [valid |-> FALSE, path |-> <<>>, column |-> -1]
Index(path, column) == [valid |-> TRUE, path |-> path, column |-> column]
Row(index) == IF index.valid THEN index.path[Len(index.path)] ELSE -1
Front(path) == SubSeq(path, 1, Len(path) - 1)

\* TreeModel.parent: the parent's index is in column 0; a top-level item has none
Parent(index) ==
    IF index.valid /\ Len(index.path) > 1 THEN Index(Front(index.path), 0) ELSE Invalid

\* TreeModel.get_item: the item of an index, the root item for an invalid one
get_item(index) == IF index.valid THEN index.path ELSE <<>>

\* TreeModel.index(row, column, parent): the cell in that row and column under
\* the item of parent, invalid when the item has no such row
ModelIndex(t, row, column, parent) ==
    IF row < 0 \/ row >= child_count(ItemAt(t, get_item(parent))) THEN Invalid
    ELSE Index(get_item(parent) \o <<row>>, column)

RECURSIVE insert_children(_, _, _, _)
\* TreeItem.insert_children at the item path leads to (position is valid)
insert_children(item, path, position, columns) ==
    IF path = <<>>
    THEN [item EXCEPT !.children =
              SubSeq(@, 1, position)
              \o <<TreeItem([c \in 1..columns |-> "None"], <<>>)>>
              \o SubSeq(@, position + 1, Len(@))]
    ELSE [item EXCEPT !.children[Head(path) + 1] =
              insert_children(@, Tail(path), position, columns)]

\* TreeModel.insertRows(position, 1, parent): [ok, tree]
insertRow(t, position, parent) ==
    IF position < 0 \/ position > child_count(ItemAt(t, get_item(parent)))
    THEN [ok |-> FALSE, tree |-> t]
    ELSE [ok |-> TRUE,
          tree |-> insert_children(t, get_item(parent), position, column_count(t))]

RECURSIVE remove_children(_, _, _)
\* TreeItem.remove_children: the child and everything below it go
remove_children(item, path, position) ==
    IF path = <<>>
    THEN [item EXCEPT !.children =
              SubSeq(@, 1, position) \o SubSeq(@, position + 2, Len(@))]
    ELSE [item EXCEPT !.children[Head(path) + 1] =
              remove_children(@, Tail(path), position)]

\* TreeModel.removeRows(position, 1, parent): [ok, tree]
removeRow(t, position, parent) ==
    IF position < 0 \/ position + 1 > child_count(ItemAt(t, get_item(parent)))
    THEN [ok |-> FALSE, tree |-> t]
    ELSE [ok |-> TRUE, tree |-> remove_children(t, get_item(parent), position)]

RECURSIVE insert_columns(_, _)
\* TreeItem.insert_columns: a new empty column in the item and in all below it
insert_columns(item, position) ==
    TreeItem(SubSeq(item.data, 1, position) \o <<"None">>
                 \o SubSeq(item.data, position + 1, Len(item.data)),
             [i \in 1..Len(item.children) |-> insert_columns(item.children[i], position)])

\* TreeModel.insertColumns(position, 1): [ok, tree]
insertColumn(t, position) ==
    IF position < 0 \/ position > column_count(t)
    THEN [ok |-> FALSE, tree |-> t]
    ELSE [ok |-> TRUE, tree |-> insert_columns(t, position)]

RECURSIVE remove_columns(_, _)
remove_columns(item, position) ==
    TreeItem(SubSeq(item.data, 1, position)
                 \o SubSeq(item.data, position + 2, Len(item.data)),
             [i \in 1..Len(item.children) |-> remove_columns(item.children[i], position)])

\* TreeModel.removeColumns(position, 1): [ok, tree]; with the last column go all rows
removeColumn(t, position) ==
    IF position < 0 \/ position + 1 > column_count(t)
    THEN [ok |-> FALSE, tree |-> t]
    ELSE LET t1 == remove_columns(t, position)
         IN  [ok |-> TRUE,
              tree |-> IF column_count(t1) = 0 THEN [t1 EXCEPT !.children = <<>>] ELSE t1]

RECURSIVE set_data(_, _, _, _)
set_data(item, path, column, value) ==
    IF path = <<>> THEN [item EXCEPT !.data[column + 1] = value]
    ELSE [item EXCEPT !.children[Head(path) + 1] = set_data(@, Tail(path), column, value)]

\* TreeModel.setData(index, value, EditRole): the tree afterwards; an index
\* that is invalid or names no column of its item changes nothing
setData(t, index, value) ==
    IF index.valid /\ index.column \in 0..(column_count(t) - 1)
    THEN set_data(t, index.path, index.column, value)
    ELSE t

\* TreeModel.headerData(column, Horizontal)
headerData(t, column) == t.data[column + 1]

\* TreeModel.setHeaderData(column, Horizontal, value, EditRole): the tree afterwards
setHeaderData(t, column, value) ==
    IF column \in 0..(column_count(t) - 1) THEN [t EXCEPT !.data[column + 1] = value] ELSE t

\* textedit.py:59-62  the tree built from default.txt under the one header
\* "Notes": one note at the top level
InitialTree == TreeItem(<<"Notes">>, <<TreeItem(<<"note">>, <<>>)>>)

VARIABLES
    pc,              \* "start" | "running" | "closed" | "crashed"
    doc,             \* the QTextDocument's content: [kind, text]
    modified,        \* document.isModified()
    windowModified,  \* QMainWindow.isWindowModified()
    file_name,       \* self._file_name
    title,           \* windowTitle()
    status,          \* statusBar().currentMessage(), <<>> when there is none
    fs,              \* the files: path -> [exists, fmt, text, utf8]
    tree,            \* self.model: the root item of the note tree
    cur,             \* view.selectionModel().currentIndex()
    selected,        \* whether the current index is selected (single selection)
    enabled,         \* isEnabled() of the four tree actions update_actions sets
    block,           \* the format of the block the text cursor is in
    above,           \* the list of the line above the cursor, NoList if none
    combo_style,     \* self._combo_style.currentIndex()
    charfmt,         \* the character format at the cursor
    paste_enabled,   \* self._action_paste.isEnabled()
    checked,         \* self._action_toggle_check_state.isChecked()
    steps,           \* weight of the handlers run so far in a bounded session,
                     \* -1 in an unbounded one
    moves,           \* the moves of the text cursor to another block so far
    last             \* the handler that ran last, its inputs and results

vars == <<pc, doc, modified, windowModified, file_name, title, status, fs,
          tree, cur, selected, enabled, block, above, combo_style, charfmt,
          paste_enabled, checked, steps, moves, last>>

\* what the document handlers never touch
treeVars == <<tree, cur, selected, enabled>>

\* what the tree handlers never touch
docVars == <<doc, modified, windowModified, file_name, title, fs, block, above,
            combo_style>>

\* what only the formatting handlers and the clipboard touch
textVars == <<charfmt, paste_enabled, checked>>

EmptyDoc == [kind |-> "plain", text |-> NoText]

\* the part of the state the document handlers work on
Window == [doc |-> doc, modified |-> modified, windowModified |-> windowModified,
           file_name |-> file_name, title |-> title, status |-> status, fs |-> fs,
           block |-> block, above |-> above, combo_style |-> combo_style,
           charfmt |-> charfmt, checked |-> checked]

\* QTextList: no list, or a list's style and indent; id tells the list of the
\* line above (1) from a list created for the block (2)
NoList == [id |-> 0, style |-> "ListStyleUndefined", indent |-> 0]
List(id, style, indent) == [id |-> id, style |-> style, indent |-> indent]

\* a standard paragraph outside any list
StandardBlock == [headingLevel |-> 0, marker |-> "NoMarker", indent |-> 0, list |-> NoList]

\* textedit.py:704-738  the index cursor_position_changed gives the style
\* combo box for the block under the cursor
StyleIndexOf(b) ==
    IF b.list.id # 0
    THEN LET by_style ==
                 CASE b.list.style = "ListDisc" -> 1
                   [] b.list.style = "ListCircle" -> 2
                   [] b.list.style = "ListSquare" -> 3
                   [] b.list.style = "ListDecimal" -> 6
                   [] b.list.style = "ListLowerAlpha" -> 7
                   [] b.list.style = "ListUpperAlpha" -> 8
                   [] b.list.style = "ListLowerRoman" -> 9
                   [] b.list.style = "ListUpperRoman" -> 10
                   [] OTHER -> -1
         IN  CASE b.marker = "Unchecked" -> 4
               [] b.marker = "Checked" -> 5
               [] OTHER -> by_style
    ELSE IF b.headingLevel # 0 THEN b.headingLevel + 10 ELSE 0



\* textedit.py:103-104  QTextDocument.setModified: modificationChanged is
\* emitted, and the window-modified flag follows, only when the flag changes
SetModified(w, m) ==
    IF w.modified = m THEN w
    ELSE [w EXCEPT !.modified = m, !.windowModified = m]

ListStyles == <<"ListStyleUndefined", "ListDisc", "ListCircle", "ListSquare",
                "", "", "ListDecimal", "ListLowerAlpha", "ListUpperAlpha",
                "ListLowerRoman", "ListUpperRoman">>

\* textedit.py:31-37  len(STYLES)
NumStyles == 17

\* a faulty text_style: the heading level is one too low
text_style_low_heading(w, styleIndex) ==
    LET in_list == w.block.list.id # 0
        style == IF styleIndex \in {4, 5}
                 THEN (IF in_list THEN w.block.list.style ELSE "ListDisc")
                 ELSE IF styleIndex \in 1..10 THEN ListStyles[styleIndex + 1]
                 ELSE "ListStyleUndefined"
        marker == CASE styleIndex = 4 -> "Unchecked"
                    [] styleIndex = 5 -> "Checked"
                    [] OTHER -> "NoMarker"
        heading_level == IF styleIndex >= 11 THEN styleIndex - 11 ELSE 0
    IN  IF style = "ListStyleUndefined"
        THEN [w EXCEPT !.block.list = NoList, !.block.headingLevel = heading_level,
                       !.charfmt.bold = heading_level # 0]
        ELSE IF in_list
        THEN [w EXCEPT !.block.marker = marker,
                       !.block.list = List(2, style, w.block.list.indent)]
        ELSE [w EXCEPT !.block.marker = marker,
                       !.block.indent = 0,
                       !.block.list = List(2, style, w.block.indent + 1)]

\* textedit.py:565-631  the block and list formats the style gives the block
\* under the cursor; a heading or the standard style also merges a font
\* weight into the current character format, and font_changed (756-763)
\* shows it on the Bold action
text_style(w, styleIndex) ==
    LET in_list == w.block.list.id # 0
        style == IF styleIndex \in {4, 5}
                 THEN (IF in_list THEN w.block.list.style ELSE "ListDisc")
                 ELSE IF styleIndex \in 1..10 THEN ListStyles[styleIndex + 1]
                 ELSE "ListStyleUndefined"
        marker == CASE styleIndex = 4 -> "Unchecked"
                    [] styleIndex = 5 -> "Checked"
                    [] OTHER -> "NoMarker"
        heading_level == IF styleIndex >= 11 THEN styleIndex - 11 + 1 ELSE 0
    IN  IF style = "ListStyleUndefined"
        THEN [w EXCEPT !.block.list = NoList, !.block.headingLevel = heading_level,
                       !.charfmt.bold = heading_level # 0]
        ELSE IF in_list
        THEN [w EXCEPT !.block.marker = marker,
                       !.block.list = List(2, style, w.block.list.indent)]
        ELSE [w EXCEPT !.block.marker = marker,
                       !.block.indent = 0,
                       !.block.list = List(2, style, w.block.indent + 1)]

\* textedit.py:665-666  the slot of the "Checked" action's toggled signal; the
\* edit it makes sets the document modified
set_checked(w, isChecked) == SetModified(text_style(w, IF isChecked THEN 5 ELSE 4), TRUE)

\* textedit.py:702-738  the combo box shows the style of the block; in a list
\* the "Checked" action is set from the block's marker, and when that changes
\* its state the action emits toggled and set_checked restyles the block
cursor_position_changed(w) ==
    LET shown == [w EXCEPT !.combo_style = StyleIndexOf(w.block)]
        isChecked == w.block.marker = "Checked"
    IN  IF w.block.list.id = 0 \/ w.checked = isChecked THEN shown
        ELSE set_checked([shown EXCEPT !.checked = isChecked], isChecked)

\* QTextEdit.setHtml / setMarkdown / setPlainText / clear: the content is
\* replaced, the cursor is at its start and cursorPositionChanged is emitted
ReplaceContent(w, d) ==
    cursor_position_changed(
        SetModified([w EXCEPT !.doc = d, !.block = StandardBlock, !.above = NoList],
                    FALSE))

\* f"{shown_name}[*] - {app_name}"
TitleOf(fileName) ==
    (IF fileName # EmptyName THEN FileName(fileName) ELSE <<"untitled", ".txt">>)
        \o <<"[*] - ", AppName>>

set_current_file_name(w, fileName) ==
    LET w1 == SetModified([w EXCEPT !.file_name = fileName], FALSE)
    IN  [w1 EXCEPT !.title = TitleOf(fileName), !.windowModified = FALSE]

NoWrite == <<>>
NoDialogs == <<>>

\* f'Wrote "{native_fn}"' and the like: the text, then the name's tokens
Message(text, name) == <<text>> \o name

\* Python's bool as a return value
Bool(b) == IF b THEN "True" ELSE "False"

\* the result of a call: the window after it, what it returned ("True", "False",
\* "raise" when it threw, "none" when nothing was called), the answers of the
\* "Save as..." dialogs it opened, the write it attempted and the button of
\* the warning box ("none" when no box came up)
Result(w, ret, dialogs, write, choice) ==
    [w |-> w, ret |-> ret, dialogs |-> dialogs, write |-> write, choice |-> choice]

\* a faulty choice of format: everything is taken as plain text
InterpretPlain(mime, data) == [kind |-> "plain", text |-> data.text]

\* setHtml / setMarkdown / setPlainText by MIME type
Interpret(mime, data) ==
    [kind |-> CASE mime = "text/html" -> "html"
                [] mime = "text/markdown" -> "markdown"
                [] OTHER -> "plain",
     text |-> data.text]

\* a faulty load: it clears the editor before it looks at the file
load_clearing(w, f) ==
    IF ~w.fs[f].exists \/ ~Readable(f)
    THEN Result(ReplaceContent(w, EmptyDoc), "False", NoDialogs, NoWrite, "none")
    ELSE IF ~w.fs[f].utf8 THEN Result(w, "raise", NoDialogs, NoWrite, "none")
    ELSE Result(set_current_file_name(
                    ReplaceContent(w, Interpret(MimeTypeFor(f, w.fs[f]), w.fs[f])), f),
                "True", NoDialogs, NoWrite, "none")

load(w, f) ==
    IF ~w.fs[f].exists THEN Result(w, "False", NoDialogs, NoWrite, "none")
    ELSE IF ~Readable(f) THEN Result(w, "False", NoDialogs, NoWrite, "none")
    ELSE LET data == w.fs[f]
             mime_type_name == MimeTypeFor(f, data)
         IN  IF ~data.utf8 THEN Result(w, "raise", NoDialogs, NoWrite, "none")
             ELSE Result(set_current_file_name(
                             ReplaceContent(w, Interpret(mime_type_name, data)), f),
                         "True", NoDialogs, NoWrite, "none")

\* QTextDocumentWriter.write: what the file holds afterwards.  An ODF file is
\* a zip container: it is not UTF-8, and load never gets at the text in it
Written(w) ==
    IF WriterFormat(w.file_name) = "odf"
    THEN [exists |-> TRUE, fmt |-> "odf", text |-> NoText, utf8 |-> FALSE]
    ELSE [exists |-> TRUE, fmt |-> WriterFormat(w.file_name), text |-> w.doc.text,
          utf8 |-> TRUE]

\* QTextDocumentWriter.write: the results it can have.  It fails when no
\* writer knows the suffix or the file cannot be written, and can fail anyway
WriteOutcomes(f) ==
    IF Writable(f) /\ WriterFormat(f) # "none" THEN {TRUE, FALSE} ELSE {FALSE}

\* QFileDialog.exec() and selectedFiles()[0]: rejected, or accepted with a path
Rejected == [accepted |-> FALSE, fn |-> EmptyName]
Answers == {Rejected} \cup {[accepted |-> TRUE, fn |-> p] : p \in Paths}

\* textedit.py:492  setDefaultSuffix("odt"): the dialog appends ".odt" to a name
\* that has no suffix, so "Save as..." never returns a name without one
SaveAnswers == {a \in Answers : a.accepted => Suffix(a.fn) # ""}

RECURSIVE file_save(_, _)
RECURSIVE file_save_as(_, _)

\* a faulty file_save: only the empty name goes to "Save as...", a resource
\* path is written to
file_save_resource(w, n) ==
    IF w.file_name = EmptyName
    THEN file_save_as(w, n)
    ELSE {Result([(IF success THEN SetModified(w, FALSE) ELSE w) EXCEPT
                      !.status = Message(IF success THEN "Wrote"
                                         ELSE "Could not write to file",
                                         NativeSeparators(w.file_name)),
                      !.fs = IF success THEN [w.fs EXCEPT ![w.file_name] = Written(w)]
                             ELSE w.fs],
                 Bool(success), NoDialogs,
                 <<[name |-> w.file_name, ok |-> success]>>, "none") :
          success \in WriteOutcomes(w.file_name)}

\* a faulty file_save: a failed write clears the modified flag all the same
file_save_forgetful(w, n) ==
    IF w.file_name = EmptyName \/ StartsWithResource(w.file_name)
    THEN file_save_as(w, n)
    ELSE {Result([SetModified(w, FALSE) EXCEPT
                      !.status = Message(IF success THEN "Wrote"
                                         ELSE "Could not write to file",
                                         NativeSeparators(w.file_name)),
                      !.fs = IF success THEN [w.fs EXCEPT ![w.file_name] = Written(w)]
                             ELSE w.fs],
                 Bool(success), NoDialogs,
                 <<[name |-> w.file_name, ok |-> success]>>, "none") :
          success \in WriteOutcomes(w.file_name)}

\* The handlers that open dialogs have one result for every way the dialogs
\* and the write can go.  n: the "Save as..." dialogs the handler may still open.
file_save(w, n) ==
    IF w.file_name = EmptyName \/ StartsWithResource(w.file_name)
    THEN file_save_as(w, n)
    ELSE LET native_fn == NativeSeparators(w.file_name)
         IN  {IF success
              THEN Result([SetModified(w, FALSE) EXCEPT
                               !.status = Message("Wrote", native_fn),
                               !.fs = [w.fs EXCEPT ![w.file_name] = Written(w)]],
                          Bool(success), NoDialogs,
                          <<[name |-> w.file_name, ok |-> success]>>, "none")
              ELSE Result([w EXCEPT !.status = Message("Could not write to file",
                                                       native_fn)],
                          Bool(success), NoDialogs,
                          <<[name |-> w.file_name, ok |-> success]>>, "none") :
              success \in WriteOutcomes(w.file_name)}

\* a faulty file_save_as: the file name is taken from the dialog before its
\* result is looked at
file_save_as_eager(w, n) ==
    IF n = 0 THEN {}
    ELSE UNION {IF ~a.accepted
                THEN {Result(set_current_file_name(w, a.fn), "False", <<a>>, NoWrite,
                             "none")}
                ELSE {[r EXCEPT !.dialogs = <<a>> \o @] :
                         r \in file_save(set_current_file_name(w, a.fn), n - 1)} :
                a \in SaveAnswers}

file_save_as(w, n) ==
    IF n = 0 THEN {}
    ELSE UNION {IF ~a.accepted
                THEN {Result(w, "False", <<a>>, NoWrite, "none")}
                ELSE {[r EXCEPT !.dialogs = <<a>> \o @] :
                         r \in file_save(set_current_file_name(w, a.fn), n - 1)} :
                a \in SaveAnswers}

\* a faulty maybe_save: Cancel lets the caller go on
maybe_save_cancel_goes_on(w, n) ==
    IF ~w.modified THEN {Result(w, "True", NoDialogs, NoWrite, "none")}
    ELSE {[r EXCEPT !.choice = "Save"] : r \in file_save(w, n)}
         \cup {Result(w, "True", NoDialogs, NoWrite, "Cancel")}
         \cup {Result(w, "True", NoDialogs, NoWrite, "Discard")}

maybe_save(w, n) ==
    IF ~w.modified THEN {Result(w, "True", NoDialogs, NoWrite, "none")}
    ELSE {[r EXCEPT !.choice = "Save"] : r \in file_save(w, n)}
         \cup {Result(w, "False", NoDialogs, NoWrite, "Cancel")}
         \cup {Result(w, "True", NoDialogs, NoWrite, "Discard")}

file_new(w, n) ==
    {IF m.ret = "True"
     THEN [m EXCEPT !.w = set_current_file_name(ReplaceContent(m.w, EmptyDoc), EmptyName)]
     ELSE m : m \in maybe_save(w, n)}

\* the event loop runs, and a bounded session has handlers left
\* the window is open and the session has room for a handler of the document
Running == pc = "running" /\ steps + 2 <= MaxSteps

\* a bounded session adds up the weights of its handlers
Weigh == steps + 2 <= MaxSteps /\ steps' = IF steps < 0 THEN steps ELSE steps + 2

\* a handler other than a move of the cursor has run
Step == Weigh /\ moves' = moves

\* the window is open and the session has room for a handler of the note tree
RunningTree == pc = "running" /\ steps + 1 <= MaxSteps

StepTree ==
    /\ steps + 1 <= MaxSteps
    /\ steps' = IF steps < 0 THEN steps ELSE steps + 1
    /\ moves' = moves

\* the window a handler leaves behind becomes the state
InstallWindow(window) ==
    \E w \in {window} :
        /\ doc' = w.doc
        /\ modified' = w.modified
        /\ windowModified' = w.windowModified
        /\ file_name' = w.file_name
        /\ title' = w.title
        /\ status' = w.status
        /\ fs' = w.fs
        /\ block' = w.block
        /\ above' = w.above
        /\ combo_style' = w.combo_style
        /\ charfmt' = w.charfmt
        /\ checked' = w.checked
        /\ UNCHANGED paste_enabled

Install(window) == InstallWindow(window) /\ Step

\* op: the handler; arg: its argument; file: the path it passed to load
Last(op, arg, file, r) ==
    [op |-> op, arg |-> arg, file |-> file, ret |-> r.ret, choice |-> r.choice,
     dialogs |-> r.dialogs, write |-> r.write]

NoResult == Result(Window, "none", NoDialogs, NoWrite, "none")

\* ------------------------------------------------------------- actions
Init ==
    /\ pc = "start"
    /\ doc = EmptyDoc
    /\ modified = FALSE
    /\ windowModified = FALSE
    /\ file_name = EmptyName
    /\ title = TitleOf(EmptyName)
    /\ status = <<>>
    /\ fs = InitialFs
    /\ tree = InitialTree
    /\ cur = Invalid
    /\ selected = FALSE
    /\ enabled = [insert_row |-> TRUE, insert_column |-> TRUE, remove_row |-> TRUE,
                  remove_column |-> TRUE]
    /\ block = StandardBlock
    /\ above = NoList
    /\ combo_style = 0
    /\ charfmt = [bold |-> FALSE, italic |-> FALSE, underline |-> FALSE]
    /\ paste_enabled \in BOOLEAN
    /\ checked = FALSE
    /\ steps = -1
    /\ moves = 0
    /\ last = Last("init", EmptyName, EmptyName, NoResult)

\* what options.file can be: a path, or EmptyName when no argument was given
FileArguments == Paths \cup {EmptyName}

\* no file argument
NoArgument == {EmptyName}

\* main.py:41-45  arg is options.file, one of args
Main(args) ==
    /\ pc = "start" /\ steps + 2 <= MaxSteps
    /\ \E arg \in args :
         LET file == IF arg # EmptyName THEN arg ELSE DefaultFile
             l == load(Window, file)
         IN  IF l.ret = "raise"
             THEN /\ pc' = "crashed"
                  /\ last' = Last("main", arg, file, l)
                  /\ UNCHANGED <<docVars, status, textVars>>
                  /\ Step
             ELSE IF l.ret = "False"
             THEN \E n \in file_new(l.w, MaxDialogs) :
                      /\ pc' = "running"
                      /\ Install(n.w)
                      /\ last' = Last("main", arg, file, l)
             ELSE /\ pc' = "running"
                  /\ Install(l.w)
                  /\ last' = Last("main", arg, file, l)
    /\ UNCHANGED treeVars

\* the user types into the QTextEdit
EditText ==
    /\ Running
    /\ doc.text.rev < MaxEdits
    /\ Install(cursor_position_changed(
                   SetModified([Window EXCEPT !.doc.text.rev = @ + 1], TRUE)))
    /\ last' = Last("edit", EmptyName, EmptyName, NoResult)
    /\ pc' = pc
    /\ UNCHANGED treeVars

FileNew ==
    /\ Running
    /\ \E r \in file_new(Window, MaxDialogs) :
         /\ Install(r.w)
         /\ last' = Last("file_new", EmptyName, EmptyName, r)
    /\ pc' = pc
    /\ UNCHANGED treeVars

FileOpen ==
    /\ Running
    /\ \E a \in Answers :
         /\ a.accepted => fs[a.fn].exists
         /\ IF ~a.accepted
            THEN /\ UNCHANGED <<docVars, status, textVars>>
                 /\ Step
                 /\ last' = Last("file_open", EmptyName, EmptyName, NoResult)
            ELSE LET fn == a.fn
                     native_fn == NativeSeparators(fn)
                     l == load(Window, fn)
                 IN  /\ IF l.ret = "raise" THEN Install(l.w)
                        ELSE IF l.ret = "True"
                        THEN Install([l.w EXCEPT !.status = Message("Opened", native_fn)])
                        ELSE Install([l.w EXCEPT !.status = Message("Could not open", native_fn)])
                     /\ last' = Last("file_open", EmptyName, fn, l)
    /\ pc' = pc
    /\ UNCHANGED treeVars

\* textedit.py:103,108  the Save action is enabled while the document is modified
FileSave ==
    /\ Running
    /\ modified
    /\ \E r \in file_save(Window, MaxDialogs) :
         /\ Install(r.w)
         /\ last' = Last("file_save", EmptyName, EmptyName, r)
    /\ pc' = pc
    /\ UNCHANGED treeVars

FileSaveAs ==
    /\ Running
    /\ \E r \in file_save_as(Window, MaxDialogs) :
         /\ Install(r.w)
         /\ last' = Last("file_save_as", EmptyName, EmptyName, r)
    /\ pc' = pc
    /\ UNCHANGED treeVars

closeEvent ==
    /\ Running
    /\ \E r \in maybe_save(Window, MaxDialogs) :
         /\ Install(r.w)
         /\ last' = Last("closeEvent", EmptyName, EmptyName, r)
         /\ pc' = IF r.ret = "True" THEN "closed" ELSE "running"
    /\ UNCHANGED treeVars

\* ------------------------------------------------------------- tree handlers
\* the part of the state the tree handlers work on
View == [tree |-> tree, cur |-> cur, selected |-> selected, enabled |-> enabled,
         status |-> status]

PositionMessage(index) ==
    <<"Position: (", ToString(Row(index)), ",", ToString(index.column), ")">>
        \o (IF ~Parent(index).valid THEN <<" in top level">> ELSE <<>>)

\* a faulty update_actions: the two conditions are swapped
update_actions_swapped(g) ==
    [g EXCEPT !.enabled = [remove_row |-> g.cur.valid, remove_column |-> g.cur.valid,
                           insert_row |-> g.selected, insert_column |-> g.selected],
              !.status = IF g.cur.valid THEN PositionMessage(g.cur) ELSE @]

\* a faulty update_actions: it also overwrites the current cell
update_actions_overwriting(g) ==
    [g EXCEPT !.enabled = [remove_row |-> g.selected, remove_column |-> g.selected,
                           insert_row |-> g.cur.valid, insert_column |-> g.cur.valid],
              !.status = IF g.cur.valid THEN PositionMessage(g.cur) ELSE @,
              !.tree = setData(g.tree, g.cur, "[No data]")]

update_actions(g) ==
    LET has_selection == g.selected
        has_current == g.cur.valid
    IN  [g EXCEPT !.enabled = [remove_row |-> has_selection,
                               remove_column |-> has_selection,
                               insert_row |-> has_current,
                               insert_column |-> has_current],
                  !.status = IF has_current THEN PositionMessage(g.cur) ELSE @]

RECURSIVE SetRow(_, _, _, _)
\* setData("[No data]") on the first n columns of a row under parent
SetRow(t, row, parent, n) ==
    IF n = 0 THEN t
    ELSE setData(SetRow(t, row, parent, n - 1), ModelIndex(t, row, n - 1, parent),
                 "[No data]")

RECURSIVE SetChild(_, _, _)
\* the loop of insert_child over the first n columns: the child's cell, then
\* the header when there is none
SetChild(t, index, n) ==
    IF n = 0 THEN t
    ELSE LET t1 == setData(SetChild(t, index, n - 1), ModelIndex(t, 0, n - 1, index),
                           "[No data]")
         IN  IF headerData(t1, n - 1) \in {"None", ""}
             THEN setHeaderData(t1, n - 1, "[No header]")
             ELSE t1

\* QAbstractItemView.rowsAboutToBeRemoved, single selection: when the current
\* row goes, the next row becomes current and selected, else the row before,
\* else the parent; with no row and no parent left nothing is current
AfterRemoveRow(g, t1) ==
    LET index == g.cur
        parent == Parent(index)
        n == child_count(ItemAt(g.tree, get_item(parent)))
        row == Row(index)
    IN  IF n <= 1
        THEN IF parent.valid
             THEN [g EXCEPT !.tree = t1, !.cur = parent, !.selected = TRUE]
             ELSE [g EXCEPT !.tree = t1, !.cur = Invalid, !.selected = FALSE]
        ELSE LET next == IF row + 1 < n THEN row ELSE row - 1
             IN  [g EXCEPT !.tree = t1,
                           !.cur = Index(Front(index.path) \o <<next>>, index.column),
                           !.selected = TRUE]

\* QAbstractItemView.columnsAboutToBeRemoved, single selection.  The model
\* announces the removal for the top level only: a current index there moves to
\* the next column, else the one before, and is lost with the last column; a
\* current index further down keeps its column number, and is lost only when
\* the rows go with the last column
AfterRemoveColumn(g, t1) ==
    LET index == g.cur
        n == column_count(g.tree)
    IN  IF n <= 1
        THEN [g EXCEPT !.tree = t1, !.cur = Invalid, !.selected = FALSE]
        ELSE IF Len(index.path) = 1
        THEN [g EXCEPT !.tree = t1,
                       !.cur = Index(index.path,
                                     IF index.column + 1 < n THEN index.column
                                     ELSE index.column - 1),
                       !.selected = TRUE]
        ELSE [g EXCEPT !.tree = t1]

\* a handler's result: the view state after it and whether the model took the change
Done(g, ok) == [g |-> g, ret |-> Bool(ok)]

\* what a call of the model answers: the change r when the model accepts it,
\* False and the tree t as it was when the model refuses
Answer(accept, t, r) == IF accept THEN r ELSE [ok |-> FALSE, tree |-> t]

insert_child(g, acceptColumn, acceptRow) ==
    LET index == g.cur
        c == IF column_count(g.tree) = 0
             THEN Answer(acceptColumn, g.tree, insertColumn(g.tree, 0))
             ELSE [ok |-> TRUE, tree |-> g.tree]
    IN  IF ~c.ok THEN Done(g, FALSE)
        ELSE LET r == Answer(acceptRow, c.tree, insertRow(c.tree, 0, index))
             IN  IF ~r.ok THEN Done([g EXCEPT !.tree = c.tree], FALSE)
                 ELSE LET child == ModelIndex(r.tree, 0, 0, index)
                      IN  Done(update_actions(
                                   [g EXCEPT !.tree = SetChild(r.tree, index,
                                                               column_count(r.tree)),
                                             !.cur = child,
                                             !.selected = child.valid]),
                               TRUE)

insert_column(g, accept) ==
    LET column == g.cur.column
        changed == Answer(accept, g.tree, insertColumn(g.tree, column + 1))
    IN  IF changed.ok
        THEN Done(update_actions(
                      [g EXCEPT !.tree = setHeaderData(changed.tree, column + 1,
                                                       "[No header]")]), TRUE)
        ELSE Done(update_actions(g), FALSE)

\* a faulty insert_row: the new row goes before the current row
insert_row_before(g, accept) ==
    LET index == g.cur
        parent == Parent(index)
        row == IF index.valid THEN Row(index) ELSE 0
        r == Answer(accept, g.tree, insertRow(g.tree, row, parent))
    IN  IF ~r.ok THEN Done(g, FALSE)
        ELSE LET g1 == update_actions([g EXCEPT !.tree = r.tree])
             IN  Done([g1 EXCEPT !.tree = SetRow(r.tree, row, parent,
                                                 column_count(r.tree))], TRUE)

insert_row(g, accept) ==
    LET index == g.cur
        parent == Parent(index)
        r == Answer(accept, g.tree, insertRow(g.tree, Row(index) + 1, parent))
    IN  IF ~r.ok THEN Done(g, FALSE)
        ELSE LET g1 == update_actions([g EXCEPT !.tree = r.tree])
             IN  Done([g1 EXCEPT !.tree = SetRow(r.tree, Row(index) + 1, parent,
                                                 column_count(r.tree))], TRUE)

remove_column(g, accept) ==
    LET column == g.cur.column
        r == Answer(accept, g.tree, removeColumn(g.tree, column))
    IN  IF r.ok THEN Done(update_actions(AfterRemoveColumn(g, r.tree)), TRUE)
        ELSE Done(g, FALSE)

\* a faulty remove_row: the row is removed from the top level, wherever the
\* current item is
remove_row_top_level(g, accept) ==
    LET index == g.cur
        r == Answer(accept, g.tree, removeRow(g.tree, Row(index), Invalid))
    IN  IF r.ok THEN Done(update_actions(AfterRemoveRow(g, r.tree)), TRUE)
        ELSE Done(g, FALSE)

remove_row(g, accept) ==
    LET index == g.cur
        r == Answer(accept, g.tree, removeRow(g.tree, Row(index), Parent(index)))
    IN  IF r.ok THEN Done(update_actions(AfterRemoveRow(g, r.tree)), TRUE)
        ELSE Done(g, FALSE)

InstallView(g) ==
    /\ tree' = g.tree
    /\ cur' = g.cur
    /\ selected' = g.selected
    /\ enabled' = g.enabled
    /\ status' = g.status
    /\ UNCHANGED textVars
    /\ StepTree

LastTree(op, ret) ==
    [op |-> op, arg |-> EmptyName, file |-> EmptyName, ret |-> ret, choice |-> "none",
     dialogs |-> NoDialogs, write |-> NoWrite]

\* the cells the user can click
Cells(t) ==
    {Index(path, column) :
        path \in {q \in UNION {[1..n -> 0..(MaxNodes - 1)] : n \in 1..MaxNodes} :
                     ValidPath(t, q)},
        column \in 0..(column_count(t) - 1)}

\* textedit.py:72-73  a click makes a cell current and selected; update_actions
\* runs when the selection changed
Click ==
    /\ RunningTree
    /\ \E index \in Cells(tree) :
         /\ ~(selected /\ cur = index)
         /\ InstallView(update_actions([View EXCEPT !.cur = index, !.selected = TRUE]))
    /\ last' = LastTree("click", "none")
    /\ UNCHANGED <<pc, docVars>>

\* Ctrl+click on the selected cell deselects it; it stays current
Deselect ==
    /\ RunningTree
    /\ selected
    /\ InstallView(update_actions([View EXCEPT !.selected = FALSE]))
    /\ last' = LastTree("deselect", "none")
    /\ UNCHANGED <<pc, docVars>>

\* QTreeView's edit triggers (a double click or a key on the current cell):
\* the view opens an editor only on an item the model calls editable.  The
\* tree is mutated only through the insert and remove operations of the
\* actions: no editor opens, no cell changes
EditCell ==
    /\ RunningTree
    /\ cur.valid
    /\ last' = LastTree("edit", "none")
    /\ StepTree
    /\ UNCHANGED <<pc, docVars, textVars, treeVars, status>>

\* textedit.py:380  the menu's triggered signal was connected when the action
\* was added to the menu, before the action's own slot: update_actions runs
\* first, then the slot.  Whether the model takes the change is its answer
InsertRow ==
    /\ RunningTree
    /\ enabled.insert_row
    /\ \E accept \in BOOLEAN : \E r \in {insert_row(update_actions(View), accept)} :
         /\ accept => NodeCount(tree) < MaxNodes
         /\ InstallView(r.g)
         /\ last' = LastTree("insert_row", r.ret)
    /\ UNCHANGED <<pc, docVars>>

InsertColumn ==
    /\ RunningTree
    /\ enabled.insert_column
    /\ \E accept \in BOOLEAN : \E r \in {insert_column(update_actions(View), accept)} :
         /\ accept => column_count(tree) < MaxColumns
         /\ InstallView(r.g)
         /\ last' = LastTree("insert_column", r.ret)
    /\ UNCHANGED <<pc, docVars>>

RemoveRow ==
    /\ RunningTree
    /\ enabled.remove_row
    /\ \E accept \in BOOLEAN : \E r \in {remove_row(update_actions(View), accept)} :
         /\ InstallView(r.g)
         /\ last' = LastTree("remove_row", r.ret)
    /\ UNCHANGED <<pc, docVars>>

RemoveColumn ==
    /\ RunningTree
    /\ enabled.remove_column
    /\ \E accept \in BOOLEAN : \E r \in {remove_column(update_actions(View), accept)} :
         /\ InstallView(r.g)
         /\ last' = LastTree("remove_column", r.ret)
    /\ UNCHANGED <<pc, docVars>>

InsertChild ==
    /\ RunningTree
    /\ \E acceptColumn \in BOOLEAN : \E acceptRow \in BOOLEAN :
       \E r \in {insert_child(update_actions(View), acceptColumn, acceptRow)} :
         /\ acceptRow => NodeCount(tree) < MaxNodes
         /\ InstallView(r.g)
         /\ last' = LastTree("insert_child", r.ret)
    /\ UNCHANGED <<pc, docVars>>

NextTree ==
    \/ Main(FileArguments)
    \/ Click
    \/ Deselect
    \/ EditCell
    \/ InsertRow
    \/ InsertColumn
    \/ RemoveRow
    \/ RemoveColumn
    \/ InsertChild

SpecTree == Init /\ [][NextTree]_vars

\* ------------------------------------------------------------- formatting, printing
MaxIndent == 1
\* the deepest heading among the blocks the cursor can move to
MaxHeading == 1
\* how many of the list styles, in the order of STYLES, the lists have that
\* the cursor can move into or below
MaxListStyles == 1

\* the indents a block can have: indent and unindent move it a step at a
\* time, here between -MaxIndent and MaxIndent
Indents == (-MaxIndent)..MaxIndent

\* the indents a list can have: those of a block, and one more, which
\* text_style gives the list it creates for a block of indent MaxIndent
ListIndents == (-MaxIndent)..(MaxIndent + 1)

\* a faulty modify_indentation: it compares the indent of the line above with
\* the current indent, not with the indent asked for
modify_indentation_stale(w, amount) ==
    IF w.block.list.id # 0
    THEN IF w.above.id # 0 /\ w.block.list.indent = w.above.indent
         THEN [w EXCEPT !.block.list = w.above]
         ELSE [w EXCEPT !.block.list = List(2, w.block.list.style,
                                            w.block.list.indent + amount)]
    ELSE [w EXCEPT !.block.indent = @ + amount]

modify_indentation(w, amount) ==
    IF w.block.list.id # 0
    THEN IF w.above.id # 0 /\ w.block.list.indent + amount = w.above.indent
         THEN [w EXCEPT !.block.list = w.above]
         ELSE [w EXCEPT !.block.list = List(2, w.block.list.style,
                                            w.block.list.indent + amount)]
    ELSE [w EXCEPT !.block.indent = @ + amount]

LastText(op) == LastTree(op, "none")

\* textedit.py:358  the user activates an entry of the style combo box
TextStyle ==
    /\ Running
    /\ \E styleIndex \in 0..(NumStyles - 1) :
         Install(SetModified([text_style(Window, styleIndex) EXCEPT
                                  !.combo_style = styleIndex], TRUE))
    /\ last' = LastText("text_style")
    /\ UNCHANGED <<pc, treeVars>>

\* textedit.py:295-297, 669-670  the indents stay among Indents and ListIndents
Indent ==
    /\ Running
    /\ IF block.list.id # 0 THEN block.list.indent + 1 \in ListIndents
       ELSE block.indent + 1 \in Indents
    /\ Install(SetModified(modify_indentation(Window, 1), TRUE))
    /\ last' = LastText("indent")
    /\ UNCHANGED <<pc, treeVars>>

\* textedit.py:299-301, 673-674
Unindent ==
    /\ Running
    /\ IF block.list.id # 0 THEN block.list.indent - 1 \in ListIndents
       ELSE block.indent - 1 \in Indents
    /\ Install(SetModified(modify_indentation(Window, -1), TRUE))
    /\ last' = LastText("unindent")
    /\ UNCHANGED <<pc, treeVars>>

\* textedit.py:342-347  the user toggles the checkable "Checked" action
SetChecked ==
    /\ Running
    /\ Install(set_checked([Window EXCEPT !.checked = ~checked], ~checked))
    /\ last' = LastText("set_checked")
    /\ UNCHANGED <<pc, treeVars>>

\* the list styles in the order of STYLES (entries 1-3 and 6-10)
ListStyleNames == <<"ListDisc", "ListCircle", "ListSquare", "ListDecimal",
                    "ListLowerAlpha", "ListUpperAlpha", "ListLowerRoman",
                    "ListUpperRoman">>

\* the lists of the document the cursor moves in: of one of the first
\* MaxListStyles styles, at any of the indents
DocumentLists(id) ==
    {List(id, ListStyleNames[k], n) : k \in 1..MaxListStyles, n \in ListIndents}

\* the lists a line above the cursor can be in
AboveLists == {NoList} \cup DocumentLists(1)

\* QTextBlockFormat.MarkerType
Markers == {"NoMarker", "Unchecked", "Checked"}

\* the blocks the cursor can move to below a line in list a: of any heading
\* level up to MaxHeading, marker and indent, and outside any list, in the list
\* of the line above or in a list that starts with the block
CursorBlocks(a) ==
    {[headingLevel |-> h, marker |-> m, indent |-> n, list |-> l] :
        h \in 0..MaxHeading, m \in Markers, n \in Indents,
        l \in {NoList, a} \cup DocumentLists(2)}

\* textedit.py:49  the cursor moves to another block and
\* cursor_position_changed runs
MoveCursor ==
    /\ Running
    /\ moves < MaxMoves
    /\ \E a \in AboveLists : \E b \in CursorBlocks(a) :
         InstallWindow(cursor_position_changed([Window EXCEPT !.above = a, !.block = b]))
    /\ Weigh
    /\ moves' = moves + 1
    /\ last' = LastText("cursor_position_changed")
    /\ UNCHANGED <<pc, treeVars>>

\* the formats of the text the cursor can come onto
CharFormats == [bold : BOOLEAN, italic : BOOLEAN, underline : BOOLEAN]

\* textedit.py:48, 698-700  the cursor comes onto text of another format:
\* font_changed (756-763) shows it on the Bold, Italic and Underline actions
current_char_format_changed ==
    /\ Running
    /\ \E format \in CharFormats \ {charfmt} : charfmt' = format
    /\ last' = LastText("current_char_format_changed")
    /\ Step
    /\ UNCHANGED <<pc, treeVars, docVars, status, paste_enabled, checked>>

\* text_bold, text_italic, text_underline: the checkable action is toggled and
\* its state merged into the format of the word or selection; the document is
\* modified when there is a word or a selection to format
TextCharFormat ==
    /\ Running
    /\ \E a \in {"bold", "italic", "underline"} :
         /\ charfmt' = [charfmt EXCEPT ![a] = ~@]
         /\ last' = LastText(a)
    /\ \E w \in {Window, SetModified(Window, TRUE)} :
         /\ modified' = w.modified
         /\ windowModified' = w.windowModified
    /\ Step
    /\ UNCHANGED <<pc, treeVars, doc, file_name, title, status, fs, block, above,
                   combo_style, paste_enabled, checked>>

\* textedit.py:550-562, 633-662  text_align sets the alignment of the block;
\* text_family, text_size, text_color and underline_color merge a format into
\* the word or selection, when there is one (and the colour dialog was not
\* cancelled, the size is positive).  Of the window only the modified flag
\* follows
TextFormat ==
    /\ Running
    /\ \E op \in {"text_align", "text_family", "text_size", "text_color",
                   "underline_color"} :
         /\ last' = LastText(op)
         /\ \E w \in (IF op = "text_align" THEN {} ELSE {Window})
                       \cup {SetModified(Window, TRUE)} :
                Install(w)
    /\ UNCHANGED <<pc, treeVars>>

\* textedit.py:117  QClipboard.dataChanged
clipboard_data_changed ==
    /\ Running
    /\ \E hasText \in BOOLEAN : paste_enabled' = hasText
    /\ last' = LastText("clipboard_data_changed")
    /\ Step
    /\ UNCHANGED <<pc, treeVars, docVars, status, charfmt, checked>>

\* QTextDocument.print_ to a PDF printer: what the file holds afterwards
Printed == [exists |-> TRUE, fmt |-> "pdf", text |-> NoText, utf8 |-> FALSE]

\* what the user does in the print dialog: cancels it, or prints on a
\* printer (no file name) or to a file
PrintAnswers == Answers \cup {[accepted |-> TRUE, fn |-> EmptyName]}

\* QPrinter printing to a file: the files afterwards
PrintedTo(files, f) ==
    IF f # EmptyName /\ Writable(f) /\ ~StartsWithResource(f)
    THEN [files EXCEPT ![f] = Printed]
    ELSE files

\* textedit.py:499-514  file_print prints the document on the printer of the
\* print dialog when the dialog is accepted; in file_print_preview the Print
\* button of the preview dialog does the same.  Of the window nothing changes
FilePrint ==
    /\ Running
    /\ \E op \in {"file_print", "file_print_preview"} : \E a \in PrintAnswers :
         /\ last' = [LastText(op) EXCEPT !.dialogs = <<a>>]
         /\ fs' = IF a.accepted THEN PrintedTo(fs, a.fn) ELSE fs
    /\ Step
    /\ UNCHANGED <<pc, treeVars, doc, modified, windowModified, file_name, title,
                   status, block, above, combo_style, textVars>>

\* textedit.py:516-530  the document is printed to the file the "Export PDF"
\* dialog returns (setDefaultSuffix("pdf"): never a name without a suffix);
\* the message is shown whether or not the file could be written
FilePrintPdf ==
    /\ Running
    /\ \E a \in SaveAnswers :
         /\ last' = [LastText("file_print_pdf") EXCEPT !.dialogs = <<a>>]
         /\ IF ~a.accepted
            THEN UNCHANGED <<status, fs>>
            ELSE /\ status' = Message("Exported", NativeSeparators(a.fn))
                 /\ fs' = PrintedTo(fs, a.fn)
    /\ Step
    /\ UNCHANGED <<pc, treeVars, doc, modified, windowModified, file_name, title,
                   block, above, combo_style, textVars>>

NextText ==
    \/ Main(FileArguments)
    \/ EditText
    \/ TextStyle
    \/ SetChecked
    \/ Indent
    \/ Unindent
    \/ MoveCursor
    \/ current_char_format_changed
    \/ TextCharFormat
    \/ TextFormat
    \/ clipboard_data_changed
    \/ FilePrint
    \/ FilePrintPdf

Next ==
    \/ Main(FileArguments)
    \/ EditText
    \/ FileNew
    \/ FileOpen
    \/ FileSave
    \/ FileSaveAs
    \/ closeEvent
    \/ Click
    \/ Deselect
    \/ EditCell
    \/ InsertRow
    \/ InsertColumn
    \/ RemoveRow
    \/ RemoveColumn
    \/ InsertChild
    \/ TextStyle
    \/ SetChecked
    \/ Indent
    \/ Unindent
    \/ MoveCursor
    \/ current_char_format_changed
    \/ TextCharFormat
    \/ TextFormat
    \/ clipboard_data_changed
    \/ FilePrint
    \/ FilePrintPdf

\* a session of handlers that weigh at most MaxSteps together
InitBounded ==
    /\ pc = "start"
    /\ doc = EmptyDoc
    /\ modified = FALSE
    /\ windowModified = FALSE
    /\ file_name = EmptyName
    /\ title = TitleOf(EmptyName)
    /\ status = <<>>
    /\ fs = InitialFs
    /\ tree = InitialTree
    /\ cur = Invalid
    /\ selected = FALSE
    /\ enabled = [insert_row |-> TRUE, insert_column |-> TRUE, remove_row |-> TRUE,
                  remove_column |-> TRUE]
    /\ block = StandardBlock
    /\ above = NoList
    /\ combo_style = 0
    /\ charfmt = [bold |-> FALSE, italic |-> FALSE, underline |-> FALSE]
    /\ paste_enabled \in BOOLEAN
    /\ checked = FALSE
    /\ steps = 0
    /\ moves = 0
    /\ last = Last("init", EmptyName, EmptyName, NoResult)

Spec == InitBounded /\ [][Next]_vars

NextDoc ==
    \/ Main(FileArguments)
    \/ EditText
    \/ FileNew
    \/ FileOpen
    \/ FileSave
    \/ FileSaveAs
    \/ closeEvent

SpecDoc == Init /\ [][NextDoc]_vars

\* the window, started without a file argument, driven through the style
\* combo box, the "Checked" action, the indentation actions and the text cursor
NextStyle ==
    \/ Main(NoArgument)
    \/ TextStyle
    \/ SetChecked
    \/ Indent
    \/ Unindent
    \/ MoveCursor

SpecStyle == Init /\ [][NextStyle]_vars

\* ------------------------------------------------------------- properties
\* C1: started without a file argument, the bootstrap passes ":/example.html"
\* to load and the running window shows that document under that file name,
\* unmodified; started with a file argument, that path is the one passed to load.
C1_StartupShowsExample ==
    (last.op = "main" /\ pc = "running") =>
        /\ last.file = (IF last.arg = EmptyName THEN Example ELSE last.arg)
        /\ last.arg = EmptyName =>
              /\ last.ret = "True"
              /\ doc # EmptyDoc
              /\ file_name = Example
              /\ ~modified

\* C2: load returns False for a file that does not exist or cannot be opened,
\* and then changes nothing of the window (content, modified flag, file name,
\* title); file_open then shows 'Could not open "<name>"', and it shows
\* 'Opened "<name>"' exactly when load returned True.
C2_FailedLoadChangesNothing ==
    /\ [](\A f \in Paths :
             LET l == load(Window, f)
             IN  /\ (~fs[f].exists \/ ~Readable(f)) => l.ret = "False"
                 /\ l.ret = "False" => l.w = Window)
    /\ [][(last'.op = "file_open" /\ last'.file # EmptyName) =>
             /\ last'.ret = load(Window, last'.file).ret
             /\ last'.ret = "False" =>
                   /\ doc' = doc /\ modified' = modified
                   /\ windowModified' = windowModified
                   /\ file_name' = file_name /\ title' = title /\ fs' = fs
                   /\ status' = Message("Could not open", NativeSeparators(last'.file))
             /\ (status' = Message("Opened", NativeSeparators(last'.file)))
                    <=> (last'.ret = "True")]_vars

\* file_open failed on a modified document that has a file name
C2_Witness ==
    /\ last.op = "file_open" /\ last.ret = "False"
    /\ modified /\ file_name # EmptyName
    /\ status = Message("Could not open", NativeSeparators(last.file))

\* C3: with a real file name (not empty, not a resource path) file_save
\* opens no dialog, writes to that name and returns the write's result; a
\* successful write clears the modified flag and shows 'Wrote "<name>"'; a
\* failed one shows 'Could not write to file "<name>"', returns False and
\* leaves the modified flag unchanged; the file name stays as it was.
C3_FileSaveReturnsTheWrite ==
    [][(last'.op = "file_save" /\ file_name # EmptyName
            /\ ~StartsWithResource(file_name)) =>
          /\ last'.dialogs = NoDialogs
          /\ Len(last'.write) = 1 /\ last'.write[1].name = file_name
          /\ last'.ret = Bool(last'.write[1].ok)
          /\ file_name' = file_name /\ title' = title /\ doc' = doc
          /\ last'.write[1].ok =>
                /\ ~modified' /\ ~windowModified'
                /\ status' = Message("Wrote", NativeSeparators(file_name))
                /\ fs' = [fs EXCEPT ![file_name] = Written(Window)]
          /\ ~last'.write[1].ok =>
                /\ last'.ret = "False"
                /\ modified' = modified /\ windowModified' = windowModified
                /\ status' = Message("Could not write to file",
                                     NativeSeparators(file_name))
                /\ fs' = fs]_vars

\* file_save failed to write a modified document under its own name
C3_Witness ==
    /\ last.op = "file_save" /\ last.dialogs = NoDialogs
    /\ last.write = <<[name |-> file_name, ok |-> FALSE]>>
    /\ last.ret = "False" /\ modified
    /\ status = Message("Could not write to file", NativeSeparators(file_name))

\* C4: the close event is accepted exactly when maybe_save returns True: the
\* document is unmodified (no prompt), the user chose Discard, or chose Save
\* and the save succeeded.  On Cancel, and on a Save that failed or was
\* cancelled, the event is ignored: the window stays open with its content.
C4_CloseIffMaybeSave ==
    [][last'.op = "closeEvent" =>
          /\ (pc' = "closed") <=> (last'.ret = "True")
          /\ (last'.choice = "none") <=> ~modified
          /\ (last'.ret = "True") <=>
                \/ last'.choice = "none"
                \/ last'.choice = "Discard"
                \/ /\ last'.choice = "Save"
                   /\ Len(last'.write) = 1 /\ last'.write[1].ok
          /\ pc' # "closed" => pc' = "running" /\ doc' = doc]_vars

\* the user chose Save on closing, the write failed and the window stayed open
C4_Witness ==
    /\ last.op = "closeEvent" /\ last.choice = "Save"
    /\ Len(last.write) = 1 /\ ~last.write[1].ok
    /\ last.ret = "False" /\ pc = "running" /\ doc # EmptyDoc


TreeOps == {"insert_row", "insert_column", "remove_row", "remove_column", "insert_child"}

\* the row paths of the items of t
RowPaths(t) ==
    {q \in UNION {[1..n -> 0..(NodeCount(t) - 1)] : n \in 1..NodeCount(t)} :
        ValidPath(t, q)}

\* t without the row at path q and what is below it
WithoutRow(t, q) == remove_children(t, Front(q), q[Len(q)])

\* t with "[No header]" for the header of every column that has none, as the
\* loop of insert_child leaves the headers (textedit.py:795-797)
WithHeaders(t) ==
    [t EXCEPT !.data = [c \in DOMAIN @ |->
                            IF @[c] \in {"None", ""} THEN "[No header]" ELSE @[c]]]

RECURSIVE Consistent(_, _)
\* every item at or below item has n columns
Consistent(item, n) ==
    /\ column_count(item) = n
    /\ \A i \in 1..Len(item.children) : Consistent(item.children[i], n)

IsPrefix(p, q) == Len(p) <= Len(q) /\ \A i \in 1..Len(p) : q[i] = p[i]

\* the path of the item at q once the row at p is gone: the later siblings of
\* p, and what is below them, move up by one row
Shift(p, q) ==
    IF Len(q) >= Len(p) /\ IsPrefix(Front(p), q) /\ q[Len(p)] > p[Len(p)]
    THEN [q EXCEPT ![Len(p)] = @ - 1]
    ELSE q

\* C6: whatever tree actions were run, the tree is a consistent hierarchical
\* table: all items have the column count of the header row (so siblings
\* agree), the rows under every parent are numbered 0..n-1 without a gap, and
\* when a row is removed everything below it goes with it while every other
\* item stays, the later siblings moving up by one.
C6_TreeConsistent ==
    /\ [](/\ Consistent(tree, column_count(tree))
          /\ \A parent \in {Invalid} \cup {Index(q, 0) : q \in RowPaths(tree)} :
                {row \in -1..(NodeCount(tree) + 1) :
                     ModelIndex(tree, row, 0, parent).valid}
                    = 0..(child_count(ItemAt(tree, get_item(parent))) - 1))
    /\ [][(last'.op = "remove_row" /\ last'.ret = "True") =>
             LET p == cur.path
                 kept == {q \in RowPaths(tree) : ~IsPrefix(p, q)}
             IN  /\ NodeCount(tree')
                        = NodeCount(tree) - 1 - NodeCount(ItemAt(tree, p))
                 /\ RowPaths(tree') = {Shift(p, q) : q \in kept}
                 /\ \A q \in kept :
                       ItemAt(tree', Shift(p, q)).data = ItemAt(tree, q).data]_vars

\* the last top-level row was removed from a tree of two columns
C6_Witness ==
    /\ last.op = "remove_row" /\ last.ret = "True"
    /\ column_count(tree) = 2 /\ child_count(tree) = 0 /\ RowPaths(tree) = {}

\* C7: file_new replaces the document only when maybe_save returns True, and
\* then the document is empty, the file name '', the modified flag False and
\* the title shows 'untitled.txt'; when maybe_save returns False (Cancel, or
\* a Save that failed or was cancelled) the content, the file name and the
\* modified flag are all as before.
C7_FileNewOnlyAfterMaybeSave ==
    [][last'.op = "file_new" =>
          /\ last'.ret = "True" =>
                /\ doc' = EmptyDoc /\ file_name' = EmptyName /\ ~modified'
                /\ title' = <<"untitled", ".txt", "[*] - ", AppName>>
          /\ last'.ret = "False" =>
                /\ doc' = doc /\ file_name' = file_name
                /\ modified' = modified]_vars

\* C8: no handler writes to an empty file name or to a resource path: with
\* such a name file_save opens the "Save as..." dialog instead; and when the
\* first dialog is answered with a path that is neither empty nor a resource
\* path, no second dialog opens and the one write goes to that path.
C8_NoWriteToResource ==
    [][last'.op \in {"file_save", "file_save_as", "file_new", "closeEvent"} =>
          /\ \A i \in 1..Len(last'.write) :
                /\ last'.write[i].name # EmptyName
                /\ ~StartsWithResource(last'.write[i].name)
          /\ \A p \in Paths : StartsWithResource(p) => fs'[p] = fs[p]
          /\ (last'.op = "file_save"
                /\ (file_name = EmptyName \/ StartsWithResource(file_name))) =>
                Len(last'.dialogs) >= 1
          /\ (/\ Len(last'.dialogs) >= 1
              /\ last'.dialogs[1].accepted
              /\ last'.dialogs[1].fn # EmptyName
              /\ ~StartsWithResource(last'.dialogs[1].fn)) =>
                /\ Len(last'.dialogs) = 1
                /\ Len(last'.write) = 1
                /\ last'.write[1].name = last'.dialogs[1].fn]_vars

\* file_save on a document that had no file name to write to went through
\* one dialog and wrote to the path it returned
C8_Witness ==
    /\ last.op = "file_save" /\ Len(last.dialogs) = 1
    /\ last.dialogs[1].accepted
    /\ last.write = <<[name |-> last.dialogs[1].fn, ok |-> TRUE]>>
    /\ file_name = last.dialogs[1].fn /\ ~StartsWithResource(file_name)
    /\ fs[file_name].exists

\* C9: file_save_as returns False and leaves file name, title, modified flag
\* and content unchanged when the dialog is not accepted; when it is
\* accepted the file name is the selected file before any write is attempted,
\* and what file_save_as returns and leaves behind is what file_save returns
\* and leaves behind when called under that name.
C9_FileSaveAs ==
    [][last'.op = "file_save_as" =>
          /\ Len(last'.dialogs) >= 1
          /\ ~last'.dialogs[1].accepted =>
                /\ last'.ret = "False" /\ last'.write = NoWrite
                /\ file_name' = file_name /\ title' = title
                /\ modified' = modified /\ windowModified' = windowModified
                /\ doc' = doc /\ fs' = fs /\ status' = status
          /\ last'.dialogs[1].accepted => doc' = doc
          /\ (last'.dialogs[1].accepted /\ ~StartsWithResource(last'.dialogs[1].fn)) =>
                /\ Len(last'.dialogs) = 1
                /\ file_name' = last'.dialogs[1].fn
                /\ title' = TitleOf(last'.dialogs[1].fn)
                /\ ~modified' /\ ~windowModified'
                /\ Len(last'.write) = 1
                /\ last'.write[1].name = last'.dialogs[1].fn
                /\ last'.ret = Bool(last'.write[1].ok)
                /\ last'.write[1].ok =>
                      /\ status' = Message("Wrote", NativeSeparators(file_name'))
                      /\ fs' = [fs EXCEPT ![file_name'] =
                                   Written([Window EXCEPT !.file_name = file_name'])]
                /\ ~last'.write[1].ok =>
                      /\ status' = Message("Could not write to file",
                                           NativeSeparators(file_name'))
                      /\ fs' = fs
          /\ (last'.dialogs[1].accepted /\ StartsWithResource(last'.dialogs[1].fn)) =>
                \E r \in file_save(set_current_file_name(Window, last'.dialogs[1].fn),
                                   Len(last'.dialogs) - 1) :
                    /\ last'.ret = r.ret /\ last'.write = r.write
                    /\ last'.dialogs = <<last'.dialogs[1]>> \o r.dialogs
                    /\ file_name' = r.w.file_name /\ modified' = r.w.modified
                    /\ fs' = r.w.fs /\ status' = r.w.status]_vars

\* "Save as..." was accepted and the write under the new name failed
C9_Witness ==
    /\ last.op = "file_save_as" /\ Len(last.dialogs) = 1
    /\ last.dialogs[1].accepted /\ last.dialogs[1].fn = file_name
    /\ last.write = <<[name |-> file_name, ok |-> FALSE]>>
    /\ last.ret = "False" /\ doc # EmptyDoc

\* C10: a load that succeeds takes the file as HTML when its MIME type is
\* text/html, as Markdown when it is text/markdown and as plain text
\* otherwise; afterwards the file name is the loaded path, the document and
\* the window are unmodified, and load has returned True.
C10_LoadByMimeType ==
    /\ [](\A f \in Paths :
             (fs[f].exists /\ Readable(f) /\ fs[f].utf8) => load(Window, f).ret = "True")
    /\ [][(last'.op \in {"file_open", "main"} /\ last'.ret = "True") =>
             /\ fs[last'.file].exists /\ Readable(last'.file)
             /\ doc'.kind =
                    CASE MimeTypeFor(last'.file, fs[last'.file]) = "text/html" -> "html"
                      [] MimeTypeFor(last'.file, fs[last'.file]) = "text/markdown"
                             -> "markdown"
                      [] OTHER -> "plain"
             /\ doc'.text = fs[last'.file].text
             /\ file_name' = last'.file /\ title' = TitleOf(last'.file)
             /\ ~modified' /\ ~windowModified']_vars

\* a Markdown file was opened
C10_Witness ==
    /\ last.op = "file_open" /\ last.ret = "True" /\ last.file = Notes
    /\ doc.kind = "markdown" /\ file_name = Notes /\ ~modified
    /\ status = Message("Opened", NativeSeparators(Notes))

\* C11: the style combo index and the block style round-trip: whatever block
\* the cursor is in, for every index i of STYLES, text_style(i) followed by
\* cursor_position_changed on that block leaves the combo box at i (Standard
\* 0, list styles 1-3 and 6-10, task markers 4 and 5, headings 11-16 with
\* heading level i - 10).
C11_StyleRoundTrip ==
    pc = "running" =>
        \A i \in 0..(NumStyles - 1) :
            LET w == text_style(Window, i)
            IN  /\ cursor_position_changed(w).combo_style = i
                /\ i >= 11 => w.block.headingLevel = i - 10 /\ w.block.list = NoList
                /\ i = 0 => w.block.headingLevel = 0 /\ w.block.list = NoList
                /\ i \in 1..10 => w.block.list.id # 0

\* "Checked" was applied to an item of a numbered list: the combo box shows 5
\* and the block maps back to 5
C11_Witness ==
    /\ last.op = "text_style" /\ combo_style = 5
    /\ block.marker = "Checked" /\ block.list.style = "ListDecimal"
    /\ StyleIndexOf(block) = 5

\* C12: modify_indentation(amount) on a block in a list moves the block into
\* the list of the line above when that line is in a list whose indent is the
\* current list's indent + amount, and otherwise puts it in a new list of the
\* same style whose indent is the current list's indent + amount; on a block
\* outside any list it changes the block's indent by amount and nothing else.
\* indent followed by unindent on a block outside any list restores the block.
C12_ModifyIndentation ==
    /\ [](pc = "running" /\ block.list.id = 0 =>
             modify_indentation(modify_indentation(Window, 1), -1).block = block)
    /\ [][last'.op \in {"indent", "unindent"} =>
             LET amount == IF last'.op = "indent" THEN 1 ELSE -1
             IN  /\ above' = above /\ doc' = doc /\ combo_style' = combo_style
                 /\ block.list.id = 0 =>
                       block' = [block EXCEPT !.indent = block.indent + amount]
                 /\ block.list.id # 0 =>
                       /\ block'.indent = block.indent
                       /\ block'.marker = block.marker
                       /\ block'.headingLevel = block.headingLevel
                       /\ IF above.id # 0 /\ block.list.indent + amount = above.indent
                          THEN block'.list = above
                          ELSE /\ block'.list.id = 2
                               /\ block'.list.style = block.list.style
                               /\ block'.list.indent = block.list.indent + amount]_vars

\* indent moved an item of a list of its own into the list of the line
\* above, a list one level deeper than the item's own list was
C12_Witness ==
    /\ last.op = "indent" /\ block.list = above
    /\ above = List(1, "ListDisc", MaxIndent + 1)

\* C13: once update_actions has run, "Remove Row" and "Remove Column" are
\* enabled exactly when the selection is not empty and "Insert Row" and
\* "Insert Column" exactly when the current index is valid; it runs with
\* every selection change and every tree action, so this holds in every
\* state in which a click, a deselection or a tree action was the last
\* handler to run.
C13_ActionsFollowSelection ==
    last.op \in TreeOps \cup {"click", "deselect"} =>
        /\ enabled.remove_row = selected
        /\ enabled.remove_column = selected
        /\ enabled.insert_row = cur.valid
        /\ enabled.insert_column = cur.valid

\* a row was inserted after a cell that is current but no longer selected:
\* the insert actions are enabled and the remove actions are not
C13_Witness ==
    /\ last.op = "insert_row" /\ last.ret = "True"
    /\ cur.valid /\ ~selected
    /\ enabled = [insert_row |-> TRUE, insert_column |-> TRUE,
                  remove_row |-> FALSE, remove_column |-> FALSE]

\* a row of n cells that all read "[No data]" and has no rows below it
NoDataRow(n) == TreeItem([c \in 1..n |-> "[No data]"], <<>>)

\* where insert_row puts its row: after the current row, under its parent
RowAfter(index) == get_item(Parent(index)) \o <<Row(index) + 1>>

\* where insert_child puts its row: first under the current item
FirstChild(index) == get_item(index) \o <<0>>

====
